---- MODULE Spec2Model ----
(***************************************************************************)
(* A model of the todo list client (frontend/public/script.js, class       *)
(* TodoApp), of the REST backend it talks to, and of the edge server that  *)
(* serves the client and proxies /api (the express middleware chain).      *)
(*                                                                         *)
(* Strings the code inspects (trim, toLowerCase, includes) are sequences   *)
(* of one-character strings.  The network is a bag of messages: a fetch    *)
(* puts a request in it, the backend turns a request into a response, and  *)
(* the client's continuation runs when the response is taken out.          *)
(***************************************************************************)
EXTENDS Integers, Sequences, FiniteSets, Bags, TLC

\* ------------------------------------------------------------------ bounds

\* User actions taken on the page (submit, edit, delete, toggle).
MaxOps == 2
\* Requests that the network or the proxy fails.
MaxFaults == 1
\* Requests in flight when the user starts another one.
MaxInFlight == 2
\* Records in a cache drawn for the view specification.
MaxCache == 3
\* Requests received by the edge server in the routing specification.
MaxServed == 2

\* ----------------------------------------------------------------- strings

Space == " "

RECURSIVE TrimStart(_)
TrimStart(s) ==
    IF s # <<>> /\ Head(s) = Space THEN TrimStart(Tail(s)) ELSE s

RECURSIVE TrimEnd(_)
TrimEnd(s) ==
    IF s # <<>> /\ s[Len(s)] = Space THEN TrimEnd(SubSeq(s, 1, Len(s) - 1)) ELSE s

\* String.prototype.trim
Trim(s) == TrimEnd(TrimStart(s))

\* String.prototype.toLowerCase on the alphabet {" ", "a", "A", "b", "B"}
LowerChar(c) == IF c = "A" THEN "a" ELSE IF c = "B" THEN "b" ELSE c
ToLowerCase(s) == [i \in 1..Len(s) |-> LowerChar(s[i])]

\* String.prototype.includes
Includes(s, q) ==
    \E i \in 0..(Len(s) - Len(q)) : SubSeq(s, i + 1, i + Len(q)) = q

\* What the user may type in the add form and in the edit prompt.
TextInputs == { <<>>, <<" ">>, <<" ", "a">>, <<"B">> }
\* What the user may type in the search box.
QueryInputs == { <<>>, <<"A">>, <<" ", "b">> }
\* The priority select's values offered to the model.
PriorityInputs == { "medium", "high" }
Filters == { "all", "completed", "pending" }

\* ------------------------------------------------------------------- data

Todo(id, text, priority, completed, created) ==
    [id |-> id, text |-> text, priority |-> priority,
     completed |-> completed, created_at |-> created]

Range(s) == { s[i] : i \in 1..Len(s) }
IdsOf(s) == { s[i].id : i \in 1..Len(s) }

\* The three counters of the stats panel before any stats response.
Unset == [total |-> -1, completed |-> -1, pending |-> -1]
NoStats == [total |-> 0, completed |-> 0, pending |-> 0]

VARIABLES
    todos,          \* this.todos: the local cache, an array of todo records
    currentFilter,  \* this.currentFilter
    searchQuery,    \* this.searchQuery
    rendered,       \* the todos drawn in #todosList by the last renderTodos
    shown,          \* the stats panel: totalTodos, completedTodos, pendingTodos
    loading,        \* loadingOverlay has class "show"
    modal,          \* the id captured by the delete confirmation, 0: hidden
    net,            \* bag of requests and responses in flight
    ops,            \* user actions taken so far
    faults,         \* requests the network or the proxy has failed so far
    db,             \* the backend's collection
    nextId,         \* the backend's next fresh identifier
    request,        \* edge server: the request being routed
    response,       \* edge server: the response to it
    served,         \* edge server: requests received so far
    ev,             \* history: the last step taken, with the cache before it
    tog,            \* history: a pair of toggles of one record being followed
    addw,           \* history: an add and its stats refresh being followed
    clean           \* history: "unloaded" until the list is loaded, then "clean"
                    \* until a changing request fails ("dirty"), or is answered
                    \* 2xx with a body that is not JSON ("unparsed")

vars == << todos, currentFilter, searchQuery, rendered, shown, loading, modal,
           net, ops, faults, db, nextId, request, response, served, ev, tog, addw, clean >>

clientVars == << todos, currentFilter, searchQuery, rendered, shown, loading,
                 modal, net, ops >>
serverVars == << request, response, served >>
backendVars == << db, nextId >>
envVars == << faults, request, response, served >>

\* ---------------------------------------------------------------- messages

Msg(op, id, text, priority, at) ==
    [op |-> op, id |-> id, text |-> text, priority |-> priority,
     phase |-> "request", status |-> 0, json |-> FALSE,
     data |-> <<>>, stats |-> NoStats, at |-> at]

Reply(m, status, json, data, stats) ==
    [m EXCEPT !.phase = "response", !.status = status, !.json = json,
              !.data = data, !.stats = stats]

InFlight == BagToSet(net)
Quiet == net = EmptyBag
Put(bag, m) == bag (+) SetToBag({m})
Take(bag, m) == bag (-) SetToBag({m})

\* ------------------------------------------------------------ history

Event(type, op, id, status, toasts, input) ==
    [type |-> type, op |-> op, id |-> id, status |-> status,
     toasts |-> toasts, input |-> input, before |-> todos, at |-> todos]

NoTog == [id |-> 0, sent |-> 0, done |-> 0, strict |-> FALSE]
NoAdd == [stage |-> 0, cache0 |-> <<>>, shown0 |-> Unset, priority |-> "",
          fresh |-> FALSE, got |-> <<>>]

\* ------------------------------------------------- the client's functions

\* response.ok
Ok(status) == status >= 200 /\ status <= 299

\* apiCall throws on this response: !response.ok, or response.json() rejects
\* because the body is not JSON (an empty body is not).
ApiThrows(m) == ~Ok(m.status) \/ ~m.json

\* showLoading / hideLoading: the overlay's class "show" after the call.
ShowLoading == TRUE
HideLoading == FALSE

RECURSIVE InsertNewestFirst(_, _)
InsertNewestFirst(s, t) ==
    IF s = <<>> THEN <<t>>
    ELSE IF Head(s).created_at >= t.created_at
         THEN <<Head(s)>> \o InsertNewestFirst(Tail(s), t)
         ELSE <<t>> \o s

\* filtered.sort((a, b) => new Date(b.created_at) - new Date(a.created_at)):
\* Array.prototype.sort is stable, so equal timestamps keep their order.
RECURSIVE SortNewestFirst(_)
SortNewestFirst(s) ==
    IF s = <<>> THEN <<>>
    ELSE InsertNewestFirst(SortNewestFirst(SubSeq(s, 1, Len(s) - 1)), s[Len(s)])

\* The two status filters swapped.
StatusFilterSwapped(ts, f) ==
    IF f = "completed" THEN SelectSeq(ts, LAMBDA t : ~t.completed)
    ELSE IF f = "pending" THEN SelectSeq(ts, LAMBDA t : t.completed)
    ELSE ts

\* if (currentFilter === 'completed') ... else if (currentFilter === 'pending')
StatusFilter(ts, f) ==
    IF f = "completed" THEN SelectSeq(ts, LAMBDA t : t.completed)
    ELSE IF f = "pending" THEN SelectSeq(ts, LAMBDA t : ~t.completed)
    ELSE ts

SearchFilter(ts, q) ==
    IF q # <<>> THEN SelectSeq(ts, LAMBDA t : Includes(ToLowerCase(t.text), q))
    ELSE ts

\* getFilteredTodos: the array it returns, and this.todos after the call (the
\* filters and the sort work on a copy, [...this.todos]).
GetFilteredTodos(ts, f, q) ==
    [filtered |-> SortNewestFirst(SearchFilter(StatusFilter(ts, f), q)),
     todos |-> ts]

\* this.todos.findIndex(todo => todo.id === id), 0 for -1
RECURSIVE FindFrom(_, _, _)
FindFrom(ts, id, i) ==
    IF i > Len(ts) THEN 0
    ELSE IF ts[i].id = id THEN i ELSE FindFrom(ts, id, i + 1)
FindIndex(ts, id) == FindFrom(ts, id, 1)

\* The record pushed a second time.
PushedTwice(ts, newTodo) == Append(Append(ts, newTodo), newTodo)

\* this.todos.push(newTodo)
Pushed(ts, newTodo) == Append(ts, newTodo)

\* The record received is dropped: the cache keeps the record it had.
ReplacedNowhere(ts, id, updated) == ts

\* this.todos[index] = updatedTodo when index !== -1
Replaced(ts, id, updated) ==
    IF FindIndex(ts, id) # 0 THEN [ts EXCEPT ![FindIndex(ts, id)] = updated] ELSE ts

\* The filter inverted: todo.id === id.
RemovedOthers(ts, id) == SelectSeq(ts, LAMBDA t : t.id = id)

\* this.todos.filter(todo => todo.id !== id)
Removed(ts, id) == SelectSeq(ts, LAMBDA t : t.id # id)

\* The stats a list of todos has.
StatsOf(ts) ==
    [total |-> Len(ts),
     completed |-> Len(SelectSeq(ts, LAMBDA t : t.completed)),
     pending |-> Len(SelectSeq(ts, LAMBDA t : ~t.completed))]

\* The cached record and the backend's record of an id agree, and nothing in
\* flight concerns it.
Settled(id) ==
    /\ FindIndex(todos, id) # 0
    /\ FindIndex(db, id) # 0
    /\ todos[FindIndex(todos, id)] = db[FindIndex(db, id)]
    /\ \A m \in InFlight : m.id # id /\ m.op # "list"

\* ------------------------------------------------------------ construction

\* Collections the backend may hold when the page is opened.
InitialDbs ==
    { <<>>,
      << Todo(1, <<"a">>, "medium", FALSE, 1) >>,
      << Todo(1, <<"a">>, "low", TRUE, 1) >> }

NoRequest == [method |-> "", path |-> <<>>, backendUp |-> FALSE]
NoResponse == [status |-> 0, body |-> "", head |-> FALSE]

InitServer ==
    /\ request = NoRequest
    /\ response = NoResponse
    /\ served = 0

InitHistory ==
    /\ ev = [type |-> "constructed", op |-> "", id |-> 0, status |-> 0,
             toasts |-> <<>>, input |-> <<>>, before |-> <<>>, at |-> <<>>]
    /\ tog = NoTog
    /\ addw = NoAdd
    /\ clean = "unloaded"

\* new TodoApp(): empty cache, filter "all", no search, and loadTodos() and
\* loadStats() both started.
Init ==
    /\ todos = <<>>
    /\ currentFilter = "all"
    /\ searchQuery = <<>>
    /\ rendered = <<>>
    /\ shown = Unset
    /\ loading = ShowLoading
    /\ modal = 0
    /\ net = Put(Put(EmptyBag, Msg("list", 0, <<>>, "", <<>>)),
                 Msg("stats", 0, <<>>, "", <<>>))
    /\ ops = 0
    /\ faults = 0
    /\ db \in InitialDbs
    /\ nextId = Len(db) + 1
    /\ InitServer
    /\ InitHistory

\* ------------------------------------------------------------ user actions

\* The check without the trim: if (!this.todoInput.value).
RejectedUntrimmed(raw) == raw = <<>>

\* handleAddTodo's check: const text = value.trim(); if (!text) { toast; return }
Rejected(raw) == Trim(raw) = <<>>

\* handleAddTodo (the form's submit) and the addTodo request it starts.
HandleAddTodo(raw, priority) ==
    LET text == Trim(raw) IN
    /\ ops < MaxOps
    /\ ops' = ops + 1
    /\ IF Rejected(raw)
       THEN /\ ev' = Event("submit", "create", 0, 0, <<"error">>, raw)
            /\ UNCHANGED << net, loading >>
       ELSE /\ net' = Put(net, Msg("create", 0, text, priority, todos))
            /\ loading' = ShowLoading
            /\ ev' = Event("submit", "create", 0, 0, <<>>, raw)
    /\ addw' = IF ~Rejected(raw) /\ Quiet
               THEN [stage |-> 1, cache0 |-> todos, shown0 |-> shown,
                     priority |-> priority, fresh |-> shown = StatsOf(db),
                     got |-> <<>>]
               ELSE NoAdd
    /\ UNCHANGED << todos, currentFilter, searchQuery, rendered, shown, modal,
                    tog, clean >>
    /\ UNCHANGED << backendVars, envVars >>

\* editTodo (the edit button of a drawn todo; the prompt answers raw) and the
\* updateTodo request it starts.
EditTodo(id, raw) ==
    /\ id \in IdsOf(rendered)
    /\ ops < MaxOps
    /\ ops' = ops + 1
    /\ IF FindIndex(todos, id) # 0 /\ raw # <<>>
          /\ Trim(raw) # todos[FindIndex(todos, id)].text
       THEN /\ net' = Put(net, Msg("update", id, Trim(raw), "", todos))
            /\ loading' = ShowLoading
            /\ tog' = IF tog.id = id THEN NoTog ELSE tog
            /\ addw' = NoAdd
       ELSE UNCHANGED << net, loading, tog, addw >>
    /\ ev' = Event("edit", "update", id, 0, <<>>, raw)
    /\ UNCHANGED << todos, currentFilter, searchQuery, rendered, shown, modal,
                    clean >>
    /\ UNCHANGED << backendVars, envVars >>

\* confirmDeleteTodo (the delete button of a drawn todo): the modal opens and
\* its OK button captures the id.
ConfirmDeleteTodo(id) ==
    /\ id \in IdsOf(rendered)
    /\ FindIndex(todos, id) # 0
    /\ modal = 0
    /\ ops < MaxOps
    /\ modal' = id
    /\ ops' = ops + 1
    /\ ev' = Event("confirm", "delete", id, 0, <<>>, <<>>)
    /\ UNCHANGED << todos, currentFilter, searchQuery, rendered, shown, loading,
                    net, tog, addw, clean >>
    /\ UNCHANGED << backendVars, envVars >>

\* The modal's OK button: onConfirm() starts deleteTodo(id), then hideModal().
ModalOk ==
    /\ modal # 0
    /\ net' = Put(net, Msg("delete", modal, <<>>, "", todos))
    /\ loading' = ShowLoading
    /\ modal' = 0
    /\ tog' = IF tog.id = modal THEN NoTog ELSE tog
    /\ addw' = NoAdd
    /\ ev' = Event("modalOk", "delete", modal, 0, <<>>, <<>>)
    /\ UNCHANGED << todos, currentFilter, searchQuery, rendered, shown, ops,
                    clean >>
    /\ UNCHANGED << backendVars, envVars >>

\* The modal's close button, or a click on its backdrop: hideModal().
ModalClose ==
    /\ modal # 0
    /\ modal' = 0
    /\ ev' = Event("modalClose", "delete", modal, 0, <<>>, <<>>)
    /\ UNCHANGED << todos, currentFilter, searchQuery, rendered, shown, loading,
                    net, ops, tog, addw, clean >>
    /\ UNCHANGED << backendVars, envVars >>

\* toggleTodo (the checkbox of a drawn todo): the request it starts.
ToggleTodo(id) ==
    /\ id \in IdsOf(rendered)
    /\ ops < MaxOps
    /\ net' = Put(net, Msg("toggle", id, <<>>, "", todos))
    /\ loading' = ShowLoading
    /\ ops' = ops + 1
    /\ tog' = IF tog.id = id /\ tog.sent = 1
              THEN [tog EXCEPT !.sent = 2, !.strict = tog.strict /\ tog.done = 1]
              ELSE IF tog.id = id THEN NoTog
              ELSE IF tog.id = 0 /\ Settled(id)
                      /\ ~todos[FindIndex(todos, id)].completed
              THEN [id |-> id, sent |-> 1, done |-> 0, strict |-> TRUE]
              ELSE tog
    /\ addw' = NoAdd
    /\ ev' = Event("toggle", "toggle", id, 0, <<>>, <<>>)
    /\ UNCHANGED << todos, currentFilter, searchQuery, rendered, shown, modal,
                    clean >>
    /\ UNCHANGED << backendVars, envVars >>

\* handleFilterChange (a filter button with data-filter f).
HandleFilterChange(f) ==
    /\ currentFilter' = f
    /\ rendered' = GetFilteredTodos(todos, f, searchQuery).filtered
    /\ todos' = GetFilteredTodos(todos, f, searchQuery).todos
    /\ ev' = Event("filter", f, 0, 0, <<>>, <<>>)
    /\ UNCHANGED << searchQuery, shown, loading, modal, net, ops, tog, addw,
                    clean >>
    /\ UNCHANGED << backendVars, envVars >>

\* handleSearch (input in the search box).
HandleSearch(raw) ==
    /\ searchQuery' = Trim(ToLowerCase(raw))
    /\ rendered' = GetFilteredTodos(todos, currentFilter, searchQuery').filtered
    /\ todos' = GetFilteredTodos(todos, currentFilter, searchQuery').todos
    /\ ev' = Event("search", "", 0, 0, <<>>, raw)
    /\ UNCHANGED << currentFilter, shown, loading, modal, net, ops, tog, addw,
                    clean >>
    /\ UNCHANGED << backendVars, envVars >>

\* handleKeyboardShortcuts: Escape in the search box clears the search.
EscapeSearch ==
    /\ searchQuery' = <<>>
    /\ rendered' = GetFilteredTodos(todos, currentFilter, <<>>).filtered
    /\ todos' = GetFilteredTodos(todos, currentFilter, <<>>).todos
    /\ ev' = Event("escape", "", 0, 0, <<>>, <<>>)
    /\ UNCHANGED << currentFilter, shown, loading, modal, net, ops, tog, addw,
                    clean >>
    /\ UNCHANGED << backendVars, envVars >>

\* ------------------------------------------------ responses at the client

\* The caller's catch shows a toast of its own as well.
CatchToastsTwice == <<"error", "error">>

\* apiCall's catch: showToast(`Error: ...`, 'error'), once; the callers' catch
\* blocks only log.
CatchToasts == <<"error">>

Done(type, m, toasts) ==
    [type |-> type, op |-> m.op, id |-> m.id, status |-> m.status,
     toasts |-> toasts, input |-> <<>>, before |-> todos, at |-> m.at]

\* A call that fails: apiCall's catch shows one error toast and rethrows, its
\* finally hides the overlay, and the caller's catch only logs.
Failed(m, status) ==
    /\ net' = Take(net, m)
    /\ loading' = HideLoading
    /\ ev' = Done("failure", [m EXCEPT !.status = status], CatchToasts)
    /\ tog' = IF m.op = "toggle" /\ m.id = tog.id THEN NoTog ELSE tog
    /\ addw' = NoAdd
    /\ clean' = IF clean = "unloaded" \/ m.op \in {"list", "stats"} THEN clean
                ELSE IF Ok(status) THEN "unparsed"
                ELSE IF clean = "clean" THEN "dirty"
                ELSE clean
    /\ UNCHANGED << todos, currentFilter, searchQuery, rendered, shown, modal,
                    ops >>
    /\ UNCHANGED << backendVars, serverVars >>

\* fetch rejects: the request or its response is lost on the way.
TransportError(m) ==
    /\ m \in InFlight
    /\ faults < MaxFaults
    /\ faults' = faults + 1
    /\ Failed(m, 0)

\* A response apiCall throws on: not 2xx, or a body that is not JSON.
DeliverFailure(m) ==
    /\ m \in InFlight
    /\ m.phase = "response"
    /\ ApiThrows(m)
    /\ Failed(m, m.status)
    /\ UNCHANGED faults

Succeeds(m, op) ==
    /\ m \in InFlight
    /\ m.phase = "response"
    /\ m.op = op
    /\ ~ApiThrows(m)

\* The loadStats() a continuation ends with: one more request, overlay shown.
ThenLoadStats(m) ==
    /\ net' = Put(Take(net, m), Msg("stats", 0, <<>>, "", todos'))
    /\ loading' = ShowLoading

\* loadTodos after its await: the cache becomes the array received.
DeliverList(m) ==
    /\ Succeeds(m, "list")
    /\ todos' = GetFilteredTodos(m.data, currentFilter, searchQuery).todos
    /\ rendered' = GetFilteredTodos(m.data, currentFilter, searchQuery).filtered
    /\ ThenLoadStats(m)
    /\ ev' = Done("success", m, <<>>)
    /\ clean' = "clean"
    /\ addw' = NoAdd
    /\ UNCHANGED << currentFilter, searchQuery, shown, modal, ops, tog >>
    /\ UNCHANGED << backendVars, envVars >>

\* loadStats after its await: updateStats(stats).
DeliverStats(m) ==
    /\ Succeeds(m, "stats")
    /\ shown' = m.stats
    /\ net' = Take(net, m)
    /\ loading' = HideLoading
    /\ ev' = Done("success", m, <<>>)
    /\ addw' = IF addw.stage = 2 THEN [addw EXCEPT !.stage = 3] ELSE NoAdd
    /\ UNCHANGED << todos, currentFilter, searchQuery, rendered, modal, ops,
                    tog, clean >>
    /\ UNCHANGED << backendVars, envVars >>

\* addTodo after its await.
DeliverCreate(m) ==
    /\ Succeeds(m, "create")
    /\ LET cache == Pushed(todos, m.data[1]) IN
       /\ todos' = GetFilteredTodos(cache, currentFilter, searchQuery).todos
       /\ rendered' = GetFilteredTodos(cache, currentFilter, searchQuery).filtered
    /\ ThenLoadStats(m)
    /\ ev' = Done("success", m, <<"success">>)
    /\ addw' = IF addw.stage = 1 THEN [addw EXCEPT !.stage = 2, !.got = m.data]
               ELSE NoAdd
    /\ UNCHANGED << currentFilter, searchQuery, shown, modal, ops, tog, clean >>
    /\ UNCHANGED << backendVars, envVars >>

\* updateTodo and toggleTodo after their await: the record found by id is
\* replaced, drawn, and the stats reloaded; when none is found only the toast
\* is shown.
DeliverReplace(m) ==
    /\ IF FindIndex(todos, m.id) # 0
       THEN LET cache == Replaced(todos, m.id, m.data[1]) IN
            /\ todos' = GetFilteredTodos(cache, currentFilter, searchQuery).todos
            /\ rendered' =
                   GetFilteredTodos(cache, currentFilter, searchQuery).filtered
            /\ ThenLoadStats(m)
       ELSE /\ net' = Take(net, m)
            /\ loading' = HideLoading
            /\ UNCHANGED << todos, rendered >>
    /\ ev' = Done("success", m, <<"success">>)
    /\ addw' = NoAdd
    /\ UNCHANGED << currentFilter, searchQuery, shown, modal, ops, clean >>
    /\ UNCHANGED << backendVars, envVars >>

DeliverUpdate(m) ==
    /\ Succeeds(m, "update")
    /\ DeliverReplace(m)
    /\ UNCHANGED tog

DeliverToggle(m) ==
    /\ Succeeds(m, "toggle")
    /\ DeliverReplace(m)
    /\ tog' = IF m.id = tog.id THEN [tog EXCEPT !.done = tog.done + 1] ELSE tog

\* deleteTodo after its await.
DeliverDelete(m) ==
    /\ Succeeds(m, "delete")
    /\ LET cache == Removed(todos, m.id) IN
       /\ todos' = GetFilteredTodos(cache, currentFilter, searchQuery).todos
       /\ rendered' = GetFilteredTodos(cache, currentFilter, searchQuery).filtered
    /\ ThenLoadStats(m)
    /\ ev' = Done("success", m, <<"success">>)
    /\ addw' = NoAdd
    /\ UNCHANGED << currentFilter, searchQuery, shown, modal, ops, tog, clean >>
    /\ UNCHANGED << backendVars, envVars >>

\* ------------------------------------------------------------- the backend

Answer(m, r) ==
    /\ net' = Put(Take(net, m), r)
    /\ ev' = Event("backend", "", 0, 0, <<>>, <<>>)
    /\ UNCHANGED << todos, currentFilter, searchQuery, rendered, shown, loading,
                    modal, ops, tog, addw, clean >>
    /\ UNCHANGED serverVars

Asked(m, op) ==
    /\ m \in InFlight
    /\ m.phase = "request"
    /\ m.op = op

\* The backend's table with the row of this id overwritten.
Stored(rows, id, new) ==
    [i \in 1..Len(rows) |-> IF rows[i].id = id THEN new ELSE rows[i]]

\* The backend's table without the row of this id.
Dropped(rows, id) == SelectSeq(rows, LAMBDA r : r.id # id)

\* GET /todos
BackendList(m) ==
    /\ Asked(m, "list")
    /\ Answer(m, Reply(m, 200, TRUE, db, NoStats))
    /\ UNCHANGED << backendVars, faults >>

\* GET /stats
BackendStats(m) ==
    /\ Asked(m, "stats")
    /\ Answer(m, Reply(m, 200, TRUE, <<>>, StatsOf(db)))
    /\ UNCHANGED << backendVars, faults >>

\* POST /todos: a fresh id and the creation time are assigned.
BackendCreate(m) ==
    /\ Asked(m, "create")
    /\ LET new == Todo(nextId, m.text, m.priority, FALSE, nextId) IN
       /\ db' = Append(db, new)
       /\ nextId' = nextId + 1
       /\ Answer(m, Reply(m, 201, TRUE, <<new>>, NoStats))
    /\ UNCHANGED faults

\* PUT /todos/{id}: the text is replaced; an unknown id or an empty text is
\* refused.
BackendUpdate(m) ==
    /\ Asked(m, "update")
    /\ UNCHANGED faults
    /\ IF FindIndex(db, m.id) = 0
       THEN /\ Answer(m, Reply(m, 404, TRUE, <<>>, NoStats))
            /\ UNCHANGED backendVars
       ELSE IF m.text = <<>>
       THEN /\ Answer(m, Reply(m, 400, TRUE, <<>>, NoStats))
            /\ UNCHANGED backendVars
       ELSE LET new == [db[FindIndex(db, m.id)] EXCEPT !.text = m.text] IN
            /\ db' = Stored(db, m.id, new)
            /\ Answer(m, Reply(m, 200, TRUE, <<new>>, NoStats))
            /\ UNCHANGED nextId

\* DELETE /todos/{id}: the response to a deletion is empty or a confirmation;
\* an unknown id is refused, or confirmed as already gone.
BackendDelete(m) ==
    /\ Asked(m, "delete")
    /\ UNCHANGED faults
    /\ IF FindIndex(db, m.id) = 0
       THEN /\ \/ Answer(m, Reply(m, 404, TRUE, <<>>, NoStats))
               \/ Answer(m, Reply(m, 200, TRUE, <<>>, NoStats))
            /\ UNCHANGED backendVars
       ELSE /\ db' = Dropped(db, m.id)
            /\ \/ Answer(m, Reply(m, 200, TRUE, <<>>, NoStats))
               \/ Answer(m, Reply(m, 204, FALSE, <<>>, NoStats))
            /\ UNCHANGED nextId

\* PATCH /todos/toggle/{id}
BackendToggle(m) ==
    /\ Asked(m, "toggle")
    /\ UNCHANGED faults
    /\ IF FindIndex(db, m.id) = 0
       THEN /\ Answer(m, Reply(m, 404, TRUE, <<>>, NoStats))
            /\ UNCHANGED backendVars
       ELSE LET old == db[FindIndex(db, m.id)]
                new == [old EXCEPT !.completed = ~old.completed] IN
            /\ db' = Stored(db, m.id, new)
            /\ Answer(m, Reply(m, 200, TRUE, <<new>>, NoStats))
            /\ UNCHANGED nextId

\* The edge server's proxy cannot reach the backend: onError answers 500 with
\* a JSON body.
ProxyError(m) ==
    /\ m \in InFlight
    /\ m.phase = "request"
    /\ faults < MaxFaults
    /\ faults' = faults + 1
    /\ Answer(m, Reply(m, 500, TRUE, <<>>, NoStats))
    /\ UNCHANGED backendVars

\* --------------------------------------------------------- the edge server

Methods == { "GET", "HEAD", "POST", "PUT", "DELETE", "PATCH" }

\* Request paths, as their segments: /, /index.html, /script.js, /about,
\* /todos/1, /apiary, /api, /api/todos.
Paths ==
    { <<>>, <<"index.html">>, <<"script.js">>, <<"about">>, <<"todos", "1">>,
      <<"apiary">>, <<"api">>, <<"api", "todos">> }

\* The files of the public directory.
PublicFiles == { <<"index.html">>, <<"script.js">> }

\* express.static: a GET or HEAD of a file of the public directory (of
\* index.html for the directory itself) is served, anything else passed on.
StaticFile(req) ==
    IF req.method \notin {"GET", "HEAD"} THEN <<>>
    ELSE IF req.path = <<>> THEN <<"index.html">>
    ELSE IF req.path \in PublicFiles THEN req.path
    ELSE <<>>

\* app.use('/api', ...): the mount matches /api and every path under it.
UnderApi(path) == path # <<>> /\ path[1] = "api"

\* app.get('/', ...): the entry document for the root path only.
CatchAllRootOnly(req) == req.method \in {"GET", "HEAD"} /\ req.path = <<>>

\* app.get('*', ...): GET requests, and HEAD requests as express routes them.
CatchAll(req) == req.method \in {"GET", "HEAD"}

Served(status, file, req) ==
    [status |-> status, body |-> file, head |-> req.method = "HEAD"]

\* The middleware chain in the order it is installed: static files, the /api
\* proxy (its onError when the backend cannot be reached), the catch-all
\* route, and express's own 404 when nothing answered.
Route(req) ==
    IF StaticFile(req) # <<>> THEN Served(200, StaticFile(req)[1], req)
    ELSE IF UnderApi(req.path)
    THEN IF req.backendUp THEN Served(200, "proxied", req)
         ELSE Served(500, "Backend server unavailable", req)
    ELSE IF CatchAll(req) THEN Served(200, "index.html", req)
    ELSE Served(404, "Not Found", req)

Receive(method, path, up) ==
    /\ served < MaxServed
    /\ request = NoRequest \/ response # NoResponse
    /\ request' = [method |-> method, path |-> path, backendUp |-> up]
    /\ response' = NoResponse
    /\ served' = served + 1
    /\ UNCHANGED << clientVars, backendVars, faults, ev, tog, addw, clean >>

Respond ==
    /\ request # NoRequest
    /\ response = NoResponse
    /\ response' = Route(request)
    /\ UNCHANGED << request, served >>
    /\ UNCHANGED << clientVars, backendVars, faults, ev, tog, addw, clean >>

\* ----------------------------------------------------------- specifications

Messages == InFlight
Ids == IdsOf(todos) \cup IdsOf(db)

\* The user acts while fewer than MaxInFlight requests are in flight.
Overlapping == BagCardinality(net) < MaxInFlight

\* What the user does on the page, with requests already in flight.
UserOp ==
    \/ \E raw \in TextInputs, p \in PriorityInputs :
           Overlapping /\ HandleAddTodo(raw, p)
    \/ \E id \in Ids, raw \in TextInputs : Overlapping /\ EditTodo(id, raw)
    \/ \E id \in Ids : Overlapping /\ ConfirmDeleteTodo(id)
    \/ Overlapping /\ ModalOk
    \/ Overlapping /\ ModalClose
    \/ \E id \in Ids : Overlapping /\ ToggleTodo(id)

\* The same, by a user who waits for the page to come to rest.
UserOpSeq ==
    \/ \E raw \in TextInputs, p \in PriorityInputs :
           Quiet /\ HandleAddTodo(raw, p)
    \/ \E id \in Ids, raw \in TextInputs : Quiet /\ EditTodo(id, raw)
    \/ \E id \in Ids : Quiet /\ ConfirmDeleteTodo(id)
    \/ Quiet /\ ModalOk
    \/ Quiet /\ ModalClose
    \/ \E id \in Ids : Quiet /\ ToggleTodo(id)

Network ==
    \/ \E m \in Messages : TransportError(m)
    \/ \E m \in Messages : DeliverFailure(m)
    \/ \E m \in Messages : DeliverList(m)
    \/ \E m \in Messages : DeliverStats(m)
    \/ \E m \in Messages : DeliverCreate(m)
    \/ \E m \in Messages : DeliverUpdate(m)
    \/ \E m \in Messages : DeliverDelete(m)
    \/ \E m \in Messages : DeliverToggle(m)
    \/ \E m \in Messages : BackendList(m)
    \/ \E m \in Messages : BackendStats(m)
    \/ \E m \in Messages : BackendCreate(m)
    \/ \E m \in Messages : BackendUpdate(m)
    \/ \E m \in Messages : BackendDelete(m)
    \/ \E m \in Messages : BackendToggle(m)
    \/ \E m \in Messages : ProxyError(m)

Next == UserOp \/ Network

\* The client with requests overlapping.
Spec == Init /\ [][Next]_vars

NextSeq == UserOpSeq \/ Network

\* The client when the user acts only while no request is in flight.
SpecSeq == Init /\ [][NextSeq]_vars

\* Records a cache may hold: per id, either state and either of two times.
Pool ==
    { Todo(id, IF id % 2 = 1 THEN <<"a">> ELSE <<"B">>, "medium", c, t) :
          id \in 1..MaxCache, c \in BOOLEAN, t \in 1..2 }

Caches ==
    { c \in UNION { [1..n -> Pool] : n \in 0..MaxCache } :
          \A i, j \in 1..Len(c) : i # j => c[i].id # c[j].id }

\* The page at rest after its load: some cache, drawn, and nothing in flight.
InitView ==
    /\ todos \in Caches
    /\ currentFilter = "all"
    /\ searchQuery = <<>>
    /\ rendered = GetFilteredTodos(todos, "all", <<>>).filtered
    /\ shown = StatsOf(todos)
    /\ loading = HideLoading
    /\ modal = 0
    /\ net = EmptyBag
    /\ ops = 0
    /\ faults = 0
    /\ db = todos
    /\ nextId = MaxCache + 1
    /\ InitServer
    /\ InitHistory

NextView ==
    \/ \E f \in Filters : HandleFilterChange(f)
    \/ \E raw \in QueryInputs : HandleSearch(raw)
    \/ EscapeSearch

\* The view: the filter buttons and the search box over a loaded cache.
SpecView == InitView /\ [][NextView]_vars

NextServer ==
    \/ \E method \in Methods, path \in Paths, up \in BOOLEAN :
           Receive(method, path, up)
    \/ Respond

InitRouting ==
    /\ Init
    /\ db = <<>>

\* The edge server routing requests, beside a page that was just opened.
SpecServer == InitRouting /\ [][NextServer]_vars

\* ------------------------------------------------------------ properties

IsBlank(s) == \A i \in 1..Len(s) : s[i] = Space
Count(s, t) == Cardinality({ i \in 1..Len(s) : s[i] = t })
Without(s, k) == SubSeq(s, 1, k - 1) \o SubSeq(s, k + 1, Len(s))
NewestFirst(s) ==
    \A i, j \in 1..Len(s) : i < j => s[i].created_at >= s[j].created_at
Matches(t, f) ==
    /\ f = "completed" => t.completed
    /\ f = "pending" => ~t.completed
CallFailed == ev.type = "failure" /\ ~Ok(ev.status)

\* C1, as stated: a call that fails with a non-2xx response or a transport
\* error shows exactly one error toast, and the cache is then what it was when
\* the call was issued.
C1_Original ==
    CallFailed => ev.toasts = <<"error">> /\ todos = ev.at

\* C1, amended: a call that fails with a non-2xx response or a transport error
\* shows exactly one error toast, and handling the failure leaves the cache as
\* it was (another call's response may have changed it since the issue).
C1_FailureKeepsCache ==
    CallFailed => ev.toasts = <<"error">> /\ todos = ev.before

C1_Witness ==
    /\ CallFailed
    /\ ev.status = 500
    /\ ev.op = "toggle"
    /\ todos # <<>>
    /\ todos = ev.at

\* C2: a submit of the add form with empty or whitespace-only text puts no
\* request in flight, leaves the cache unchanged and shows one error toast.
C2_BlankSubmitIsLocal ==
    [][ (ev'.type = "submit" /\ IsBlank(ev'.input))
            => (net' = net /\ todos' = todos /\ ev'.toasts = <<"error">>) ]_vars

C2_Witness ==
    /\ ev.type = "submit"
    /\ ev.input = <<" ">>
    /\ ev.toasts = <<"error">>
    /\ todos # <<>>

\* C3, as stated: no two records of the cache have the same id.
C3_UniqueIds ==
    \A i, j \in 1..Len(todos) : i # j => todos[i].id # todos[j].id

\* C4, as stated: the overlay is shown exactly while a request is in flight.
C4_BusyWhileInFlight == loading <=> ~Quiet

\* C5, as stated: once a DELETE is answered 2xx, with an empty body or with a
\* confirmation, the cache is the cache before without the records of that id.
C5_DeleteAnswered2xx ==
    (ev.type \in {"success", "failure"} /\ ev.op = "delete" /\ Ok(ev.status))
        => todos = SelectSeq(ev.before, LAMBDA t : t.id # ev.id)

CachedCompleted(id) == todos[FindIndex(todos, id)].completed

TogglesAlternate ==
    /\ tog.done = 1 => CachedCompleted(tog.id)
    /\ tog.done = 2 => ~CachedCompleted(tog.id)

\* C6, as stated: from a pending record, the cached record is completed once
\* one toggle has succeeded and pending again once a second has, also when the
\* second is issued while the first is in flight.
C6_Original ==
    (tog.id # 0 /\ FindIndex(todos, tog.id) # 0) => TogglesAlternate

\* C6, amended: the same when the second toggle is issued only after the first
\* one's response has arrived (and the record agreed with the backend's, with
\* no request for it in flight, when the first was issued).
C6_TogglesInTurn ==
    (tog.id # 0 /\ tog.strict) =>
        FindIndex(todos, tog.id) # 0 /\ TogglesAlternate

C6_Witness ==
    /\ tog.strict
    /\ tog.done = 2
    /\ ev.type = "success"
    /\ ev.op = "toggle"

GainedOne(before, after, rec) ==
    \E k \in 1..Len(after) : after[k] = rec /\ Without(after, k) = before

AddSettled ==
    /\ GainedOne(addw.cache0, todos, addw.got[1])
    /\ ~addw.got[1].completed
    /\ addw.got[1].priority = addw.priority

StatsOneMore ==
    /\ shown.total = addw.shown0.total + 1
    /\ shown.pending = addw.shown0.pending + 1

\* C7, as stated: the cache is untouched until the add's response arrives;
\* after the response and the stats refresh, the cache has gained the record
\* returned and the panel's total and pending are one more than before the add
\* (taken where the panel showed counts before the add and no 2xx response
\* was ever discarded for its body).
C7_Original ==
    /\ addw.stage = 1 => todos = addw.cache0
    /\ (addw.stage = 3 /\ addw.shown0 # Unset /\ clean # "unparsed")
           => AddSettled /\ StatsOneMore

\* C7, amended: the same, the panel being one more than before only when it
\* agreed with the backend's counts before the add; whatever it showed, it
\* shows the backend's counts afterwards.
C7_AddThenStats ==
    /\ addw.stage = 1 => todos = addw.cache0
    /\ addw.stage = 3 => AddSettled /\ shown = StatsOf(db)
    /\ (addw.stage = 3 /\ addw.fresh) => StatsOneMore

C7_Witness ==
    /\ addw.stage = 3
    /\ addw.fresh
    /\ addw.priority = "high"
    /\ addw.cache0 # <<>>

\* C8: with no search query the list drawn holds exactly the cached records
\* whose completed flag the filter asks for (all of them for "all"), newest
\* first, and the view's handlers leave the cache as it was.
C8_FilterByStatus ==
    /\ searchQuery = <<>> =>
        /\ \A t \in Range(todos) \cup Range(rendered) :
               Count(rendered, t) =
                   IF Matches(t, currentFilter) THEN Count(todos, t) ELSE 0
        /\ NewestFirst(rendered)
    /\ ev.type \in {"filter", "search", "escape"} => todos = ev.before
    /\ ev.type = "filter" => currentFilter = ev.op

C8_Witness ==
    /\ ev.type = "filter"
    /\ currentFilter = "pending"
    /\ searchQuery = <<>>
    /\ Len(todos) = 3
    /\ Len(rendered) = 2
    /\ rendered[1].created_at > rendered[2].created_at
    /\ todos[1] = rendered[2]

Unmatched ==
    /\ response # NoResponse
    /\ request.path \notin PublicFiles
    /\ ~(request.path # <<>> /\ request.path[1] = "api")

EntryDocument == response.status = 200 /\ response.body = "index.html"

SameRecords == Range(todos) = Range(db) /\ Len(todos) = Len(db)
Completed ==
    ev.type = "success" /\ ev.op \in {"list", "create", "update", "delete", "toggle"}

====
